---- MODULE Spec2Model ----
(***************************************************************************)
(* Extract-MKV: the stream resolution engine of extract-mkv.py             *)
(* (normalize_bdmv_title_streams, normalize_bdmv_title), the default-flag  *)
(* inference of src/config.py (parse_stream_configs) and the title         *)
(* identity resolver of src/bdmvinfo.py (parse_bdmv_info) with its         *)
(* counterpart scan_bdmv of the running script; and the run as a whole:    *)
(* the directory walk of the script and process_config, which extracts,   *)
(* resolves and remuxes each output config.                                *)
(*                                                                         *)
(* Python values are represented as follows.                               *)
(*   - an optional value (a dict key that may be absent, or None) is a set *)
(*     with at most one element: {} is absent, {v} is present;             *)
(*   - a list is a sequence; a dict that the code iterates is a sequence   *)
(*     of <<key, value>> pairs in insertion order with distinct keys;      *)
(*   - a stream selector (one entry of config["video"] etc.) is a record   *)
(*       source  : source_key(track), the source title it refers to        *)
(*       index   : int(track["track"]["index"])                            *)
(*       derived : track["track"] has a true "core" or "forced"            *)
(*       default : optional BOOLEAN, track["default"]                      *)
(*       track   : optional id, track["_track"]                            *)
(*   - exit(1) and an uncaught exception both end the run; the variable    *)
(*     fatal names the place: "" while the run is alive.                   *)
(***************************************************************************)
EXTENDS Integers, Sequences, FiniteSets, TLC

\* ------------------------------------------------------------------ bounds
\* Disc stream indices of a title are 0..MaxStream.
MaxStream == 2
\* A selector list holds at most MaxSel selectors.
MaxSel == 2
\* The ordinals a selector names are 0..MaxOrd.
MaxOrd == 1

StreamTypes == {"video", "audio", "subtitle"}
StreamIdx == 0 .. MaxStream

\* ------------------------------------------------------------- list helpers
Range(s) == {s[i] : i \in DOMAIN s}

Min(S) == CHOOSE x \in S : \A y \in S : x <= y
Max(S) == CHOOSE x \in S : \A y \in S : y <= x

\* sorted(...) of a collection without repetitions
RECURSIVE Sorted(_)
Sorted(S) == IF S = {} THEN <<>> ELSE <<Min(S)>> \o Sorted(S \ {Min(S)})

\* list.index(x): zero-based position of the first x
IndexOf(s, x) == Min({i \in DOMAIN s : s[i] = x}) - 1

\* ------------------------------------------------- normalize_bdmv_title
\* One container track as mkvmerge -J reports it: properties.number and id.
\* track_mapping[number - 1] = id, a later track overwriting an earlier one.
\* (variant: the reported number taken as the disc index, without the - 1)
RECURSIVE BuildTrackMappingByNumber(_, _)
BuildTrackMappingByNumber(tracks, k) ==
    IF k = 0 THEN <<>>
    ELSE LET prev == BuildTrackMappingByNumber(tracks, k - 1)
             key == tracks[k].number
         IN [i \in (DOMAIN prev) \cup {key} |->
                IF i = key THEN tracks[k].id ELSE prev[i]]

RECURSIVE BuildTrackMapping(_, _)
BuildTrackMapping(tracks, k) ==
    IF k = 0 THEN <<>>
    ELSE LET prev == BuildTrackMapping(tracks, k - 1)
             key == tracks[k].number - 1
         IN [i \in (DOMAIN prev) \cup {key} |->
                IF i = key THEN tracks[k].id ELSE prev[i]]

TrackMapping(tracks) == BuildTrackMapping(tracks, Len(tracks))

\* ---------------------------------------- normalize_bdmv_title_streams
source_key(track) == track.source

\* (variant: the streams of every type of the title)
BdmvStreamsOfAnyType(stream_type, title_id, bdmv) ==
    bdmv["video"][title_id] \o bdmv["audio"][title_id] \o bdmv["subtitle"][title_id]

\* bdmv[stream_type].get(title_id, [])
BdmvStreams(stream_type, title_id, bdmv) == bdmv[stream_type][title_id]

\* (variant: the title's derived list taken whole, whatever the stream type)
BdmvDerivedOfAnyType(stream_type, title_id, bdmv) == bdmv["derived"][title_id]

\* [i for i in bdmv["derived"].get(title_id, []) if i in bdmv_streams]
BdmvDerived(stream_type, title_id, bdmv) ==
    LET streams == Range(BdmvStreams(stream_type, title_id, bdmv))
    IN SelectSeq(bdmv["derived"][title_id], LAMBDA i : i \in streams)

\* (variant: the ordinals counted over every stream of the type, derived or not)
ActualWithDerived(stream_type, title_id, bdmv) ==
    Sorted(Range(BdmvStreams(stream_type, title_id, bdmv)))

\* sorted(i for i in bdmv_streams if i not in bdmv_derived)
ActualBdmvStreams(stream_type, title_id, bdmv) ==
    Sorted(Range(BdmvStreams(stream_type, title_id, bdmv))
           \ Range(BdmvDerived(stream_type, title_id, bdmv)))

\* (variant: any selector that sets "default", true or false)
DefaultExplicit(config_streams) ==
    \E i \in DOMAIN config_streams : config_streams[i].default # {}

\* any(config.get("default", False) for config in config_streams)
DefaultSpecified(config_streams) ==
    \E i \in DOMAIN config_streams : config_streams[i].default = {TRUE}

\* actual_bdmv_streams[track_index] for track_index < len: Python counts a
\* negative index from the end and raises IndexError below -len.
PyIndexable(s, i) == i >= 0 \/ (0 - i) <= Len(s)
PyIndex(s, i) == IF i >= 0 THEN s[i + 1] ELSE s[Len(s) + i + 1]

\* config.setdefault("default", False)
SetDefaultFalse(config) ==
    IF config.default = {} THEN [config EXCEPT !.default = {FALSE}] ELSE config

\* The outcome of lines 142-157 for one selector of the title: either the
\* place where the run ends, or the disc index it resolved to.
ResolveOne(config, actual, derived, track_mapping) ==
    LET track_index == config.index IN
    IF track_index >= Len(actual) THEN [fatal |-> "ordinal", disc |-> {}]
    ELSE IF ~PyIndexable(actual, track_index) THEN [fatal |-> "IndexError", disc |-> {}]
    ELSE LET a == PyIndex(actual, track_index)
             actual_index == IF config.derived THEN a + 1 ELSE a
         IN IF config.derived /\ actual_index \notin Range(derived)
              THEN [fatal |-> "derived", disc |-> {}]
            ELSE IF actual_index \notin DOMAIN track_mapping
              THEN [fatal |-> "absent", disc |-> {}]
            ELSE [fatal |-> "", disc |-> {actual_index}]

\* (variant: the container id also replaces the selector's ordinal)
WriteTrackOverIndex(config, default_specified, track_mapping, actual_index) ==
    [(IF default_specified THEN SetDefaultFalse(config) ELSE config)
        EXCEPT !.track = {track_mapping[actual_index]},
               !.index = track_mapping[actual_index]]

\* The write of lines 155-156 into the selector.
WriteTrack(config, default_specified, track_mapping, actual_index) ==
    [(IF default_specified THEN SetDefaultFalse(config) ELSE config)
        EXCEPT !.track = {track_mapping[actual_index]}]

\* The loop of lines 140-157 from selector k on. st carries the list as
\* written so far, used_bdmv_streams, and per selector the disc index it
\* resolved to (disc, which the code keeps only in used_bdmv_streams).
RECURSIVE ResolveLoop(_, _, _, _, _, _, _)
ResolveLoop(k, st, source_title, actual, derived, default_specified, track_mapping) ==
    IF k > Len(st.config) THEN st
    ELSE IF source_key(st.config[k]) # source_title
      THEN ResolveLoop(k + 1, st, source_title, actual, derived,
                       default_specified, track_mapping)
    ELSE LET r == ResolveOne(st.config[k], actual, derived, track_mapping) IN
         IF r.fatal # "" THEN [st EXCEPT !.fatal = r.fatal, !.at = k]
         ELSE LET actual_index == CHOOSE d \in r.disc : TRUE IN
              ResolveLoop(k + 1,
                  [st EXCEPT !.config[k] = WriteTrack(st.config[k], default_specified,
                                                      track_mapping, actual_index),
                             !.disc[k] = {actual_index},
                             !.used = Append(st.used, actual_index)],
                  source_title, actual, derived, default_specified, track_mapping)

\* (variant: the largest actual index of all, whether <= derived_i or not)
AttachedActualLargest(actual, derived_i) ==
    IF Range(actual) = {} THEN {} ELSE {Max(Range(actual))}

\* (variant: the smallest actual index <= derived_i instead of the largest)
AttachedActualSmallest(actual, derived_i) ==
    LET below == {i \in Range(actual) : i <= derived_i}
    IN IF below = {} THEN {} ELSE {Min(below)}

\* max(i for i in actual_bdmv_streams if i <= derived_i), {} for the
\* ValueError that max raises on an empty sequence.
AttachedActual(actual, derived_i) ==
    LET below == {i \in Range(actual) : i <= derived_i}
    IN IF below = {} THEN {} ELSE {Max(below)}

\* The loop of lines 158-164 from derived entry k on: the warnings logged,
\* each with the derived index it is about and the ordinal it names.
RECURSIVE WarnLoop(_, _, _, _, _, _, _)
WarnLoop(k, st, stream_type, actual, derived, track_mapping, used) ==
    IF k > Len(derived) THEN st
    ELSE LET derived_i == derived[k]
             skip == WarnLoop(k + 1, st, stream_type, actual, derived, track_mapping, used)
         IN IF stream_type = "audio" THEN skip
            ELSE IF derived_i \notin DOMAIN track_mapping THEN skip
            ELSE IF derived_i \in Range(used) THEN skip
            ELSE LET att == AttachedActual(actual, derived_i) IN
                 IF att = {} THEN [st EXCEPT !.fatal = "ValueError"]
                 ELSE LET actual_i == CHOOSE a \in att : TRUE IN
                      IF actual_i \notin Range(used) THEN skip
                      ELSE WarnLoop(k + 1,
                             [st EXCEPT !.warnings = Append(st.warnings,
                                 [derived |-> derived_i, track |-> IndexOf(actual, actual_i)])],
                             stream_type, actual, derived, track_mapping, used)

\* normalize_bdmv_title_streams(stream_type, config_streams, source_title,
\* bdmv, track_mapping): the list as it is left, the warnings logged and the
\* place where the run ended, if it did.
NormalizeStreams(stream_type, config_streams, source_title, bdmv, track_mapping) ==
    LET title_id == bdmv["titles"][source_title]
        derived == BdmvDerived(stream_type, title_id, bdmv)
        actual == ActualBdmvStreams(stream_type, title_id, bdmv)
        default_specified == DefaultSpecified(config_streams)
        st0 == [config |-> config_streams,
                disc |-> [i \in DOMAIN config_streams |-> {}],
                used |-> <<>>, warnings |-> <<>>, fatal |-> "", at |-> 0]
        st1 == ResolveLoop(1, st0, source_title, actual, derived,
                           default_specified, track_mapping)
    IN IF st1.fatal # "" THEN st1
       ELSE WarnLoop(1, st1, stream_type, actual, derived, track_mapping, st1.used)

\* ------------------------------------------- config.parse_stream_configs
\* any([stream_config.default for stream_config in stream_configs])
AnyDefault(stream_configs) ==
    \E i \in DOMAIN stream_configs : stream_configs[i].default = {TRUE}

\* The list parse_stream_configs returns: lines 92-95 set default = False
\* where it is None, if any default is true.
ParseStreamConfigs(stream_configs) ==
    IF AnyDefault(stream_configs)
      THEN [i \in DOMAIN stream_configs |->
              IF stream_configs[i].default # {} THEN stream_configs[i]
              ELSE [stream_configs[i] EXCEPT !.default = {FALSE}]]
      ELSE stream_configs

\* ------------------------------------------------- bdmvinfo.parse_bdmv_info
MAKEMKV_ANGLEINFO == 15
MAKEMKV_SOURCEFILENAME == 16
MAKEMKV_ORIGINALTITLEID == 24
MAKEMKV_OUTPUTFILENAME == 27
MAKEMKV_OUTPUTSIZEBYTES == 11
MAKEMKV_COMMENT == 49
MAKEMKV_TYPE == 1
MAKEMKV_TYPE_VIDEO == 6201
MAKEMKV_TYPE_AUDIO == 6202
MAKEMKV_TYPE_SUBTITLE == 6203
MAKEMKV_STREAMFLAGS == 22
MAKEMKV_STREAMFLAGS_DERIVED == 2048
MAKEMKV_MSG_DUPLICATETITLE == 3309

\* A dict in insertion order: d[k] = v replaces the value of a key in place
\* and appends a new key.
DictKeys(d) == {d[i][1] : i \in DOMAIN d}
DictHas(d, k) == \E i \in DOMAIN d : d[i][1] = k
DictGet(d, k) == d[CHOOSE i \in DOMAIN d : d[i][1] = k][2]
DictGetOr(d, k, default) == IF DictHas(d, k) THEN DictGet(d, k) ELSE default
DictSet(d, k, v) ==
    IF DictHas(d, k)
      THEN [i \in DOMAIN d |-> IF d[i][1] = k THEN <<k, v>> ELSE d[i]]
      ELSE Append(d, <<k, v>>)

\* A line of the disc report, split at its commas and with the quotes of its
\* value stripped: value is the text of a TINFO value, number the integer
\* that int() reads from a value, values the trailing fields of a MSG line.
TInfoLine(title, field, value, number) ==
    [kind |-> "TINFO", title |-> title, stream |-> 0, field |-> field, code |-> 0,
     value |-> value, number |-> number, values |-> <<>>]
SInfoLine(title, stream, field, code, number) ==
    [kind |-> "SINFO", title |-> title, stream |-> stream, field |-> field,
     code |-> code, value |-> "", number |-> number, values |-> <<>>]
MsgLine(code, values) ==
    [kind |-> "MSG", title |-> "", stream |-> 0, field |-> 0, code |-> code,
     value |-> "", number |-> 0, values |-> values]

\* The locals of parse_bdmv_info before the first line (lines 39-50).
EmptyReport ==
    [title_ids |-> {}, title_file |-> <<>>, title_angle |-> <<>>,
     title_originalid |-> <<>>, title_comment |-> <<>>, title_output |-> <<>>,
     title_bytes |-> <<>>, stream_video |-> <<>>, stream_audio |-> <<>>,
     stream_subtitle |-> <<>>, stream_derived |-> <<>>, duplicate_source |-> <<>>]

\* a TINFO line (lines 53-67)
ReadTInfo(info, line) ==
    LET title == line.title
        i1 == [info EXCEPT !.title_ids = @ \cup {title}]
    IN CASE line.field = MAKEMKV_SOURCEFILENAME ->
              [i1 EXCEPT !.title_file = DictSet(@, title, line.value)]
         [] line.field = MAKEMKV_ANGLEINFO ->
              [i1 EXCEPT !.title_angle = DictSet(@, title, line.value)]
         [] line.field = MAKEMKV_ORIGINALTITLEID ->
              [i1 EXCEPT !.title_originalid = DictSet(@, title, line.value)]
         [] line.field = MAKEMKV_COMMENT ->
              [i1 EXCEPT !.title_comment = DictSet(@, title, line.value)]
         [] line.field = MAKEMKV_OUTPUTFILENAME ->
              [i1 EXCEPT !.title_output = DictSet(@, title, line.value)]
         [] line.field = MAKEMKV_OUTPUTSIZEBYTES ->
              [i1 EXCEPT !.title_bytes = DictSet(@, title, line.number)]
         [] OTHER -> i1

\* (variant: a SINFO line does not make its title known)
SInfoTitleIdsKept(title_ids, title) == title_ids

\* title_ids.add(title) of a SINFO line (line 70)
SInfoTitleIds(title_ids, title) == title_ids \cup {title}

\* value & bit, for bit a power of two
BitAnd(value, bit) == IF (value \div bit) % 2 = 1 THEN bit ELSE 0

\* d.setdefault(title, []).append(stream)
AppendStream(d, title, stream) ==
    DictSet(d, title, Append(DictGetOr(d, title, <<>>), stream))

\* a SINFO line (lines 68-80)
ReadSInfo(info, line) ==
    LET title == line.title
        i1 == [info EXCEPT !.title_ids = SInfoTitleIds(@, title)]
    IN CASE line.field = MAKEMKV_TYPE /\ line.code = MAKEMKV_TYPE_VIDEO ->
              [i1 EXCEPT !.stream_video = AppendStream(@, title, line.stream)]
         [] line.field = MAKEMKV_TYPE /\ line.code = MAKEMKV_TYPE_AUDIO ->
              [i1 EXCEPT !.stream_audio = AppendStream(@, title, line.stream)]
         [] line.field = MAKEMKV_TYPE /\ line.code = MAKEMKV_TYPE_SUBTITLE ->
              [i1 EXCEPT !.stream_subtitle = AppendStream(@, title, line.stream)]
         [] line.field = MAKEMKV_STREAMFLAGS
              /\ BitAnd(line.number, MAKEMKV_STREAMFLAGS_DERIVED) # 0 ->
              [i1 EXCEPT !.stream_derived = AppendStream(@, title, line.stream)]
         [] OTHER -> i1

\* a MSG line (lines 81-84)
ReadMsg(info, line) ==
    IF line.code = MAKEMKV_MSG_DUPLICATETITLE
      THEN [info EXCEPT !.duplicate_source = DictSet(@, line.values[1], line.values[2])]
      ELSE info

\* One turn of the loop over the lines of the report (lines 52-84).
ReadLine(info, line) ==
    CASE line.kind = "TINFO" -> ReadTInfo(info, line)
      [] line.kind = "SINFO" -> ReadSInfo(info, line)
      [] line.kind = "MSG" -> ReadMsg(info, line)
      [] OTHER -> info

RECURSIVE ReadLines(_, _)
ReadLines(info, lines) ==
    IF lines = <<>> THEN info ELSE ReadLines(ReadLine(info, Head(lines)), Tail(lines))

\* The ways the loop over title_ids (lines 87-96) can end. title_ids is a
\* set of strings, whose iteration order is not fixed, so the title at which
\* the loop stops is any title that lacks an output file or a size: "" when
\* there is none.
TitlesOutcomes(info) ==
    LET lacking == {t \in info.title_ids :
                       ~DictHas(info.title_output, t) \/ ~DictHas(info.title_bytes, t)}
    IN IF lacking = {} THEN {""}
       ELSE {IF ~DictHas(info.title_output, t) THEN "no_output_file"
             ELSE "no_output_size" : t \in lacking}

\* BdmvTitleInfo(...) of lines 94-96
TitleRecord(title, info) ==
    [title_id |-> title,
     output_file |-> DictGet(info.title_output, title),
     output_bytes |-> DictGet(info.title_bytes, title),
     video_streams |-> DictGetOr(info.stream_video, title, <<>>),
     audio_streams |-> DictGetOr(info.stream_audio, title, <<>>),
     subtitle_streams |-> DictGetOr(info.stream_subtitle, title, <<>>),
     derived_streams |-> DictGetOr(info.stream_derived, title, <<>>)]

\* titles, when the loop over title_ids ends without a fatal error
BuildTitles(info) == [t \in info.title_ids |-> TitleRecord(t, info)]

\* f"{file}({angle})" of line 101
AngleKey(file, angle) == file \o "(" \o angle \o ")"

\* the loop over title_file (lines 99-101)
RECURSIVE FileKeys(_, _, _, _, _)
FileKeys(k, title_file, title_angle, titles, source_title) ==
    IF k > Len(title_file) THEN source_title
    ELSE LET title == title_file[k][1]
             key == IF ~DictHas(title_angle, title) THEN title_file[k][2]
                    ELSE AngleKey(title_file[k][2], DictGet(title_angle, title))
         IN FileKeys(k + 1, title_file, title_angle, titles,
                     DictSet(source_title, key, titles[title]))

\* the loops over title_originalid and title_comment (lines 102-105)
RECURSIVE ValueKeys(_, _, _, _)
ValueKeys(k, title_value, titles, source_title) ==
    IF k > Len(title_value) THEN source_title
    ELSE ValueKeys(k + 1, title_value, titles,
                   DictSet(source_title, title_value[k][2], titles[title_value[k][1]]))

\* (variant: the comments are entered before the original ids)
SourceTitleCommentFirst(info, titles) ==
    ValueKeys(1, info.title_originalid, titles,
      ValueKeys(1, info.title_comment, titles,
        FileKeys(1, info.title_file, info.title_angle, titles, <<>>)))

\* source_title after lines 98-105
SourceTitle(info, titles) ==
    ValueKeys(1, info.title_comment, titles,
      ValueKeys(1, info.title_originalid, titles,
        FileKeys(1, info.title_file, info.title_angle, titles, <<>>)))

\* (variant: one turn fewer than there are relations)
DuplicateBoundShort(duplicate_source) == Len(duplicate_source) - 1

\* the number of turns of the inner loop: len(duplicate_source) + 1 (line 110)
DuplicateBound(duplicate_source) == Len(duplicate_source) + 1

\* The inner for/else (lines 110-115) with n turns left: found is false when
\* the turns run out without a break.
RECURSIVE FollowTarget(_, _, _)
FollowTarget(target, n, duplicate_source) ==
    IF n <= 0 THEN [found |-> FALSE, target |-> target]
    ELSE IF ~DictHas(duplicate_source, target) THEN [found |-> TRUE, target |-> target]
    ELSE FollowTarget(DictGet(duplicate_source, target), n - 1, duplicate_source)

\* (variant: the source key is never found among the resolved keys)
HasDataNever(source, source_title) == FALSE

\* source in source_title (line 107)
HasData(source, source_title) == DictHas(source_title, source)

\* The loop over the duplicate relations from the k-th on (lines 106-119).
RECURSIVE Duplicates(_, _, _)
Duplicates(k, duplicate_source, source_title) ==
    IF k > Len(duplicate_source) THEN [fatal |-> "", titles |-> source_title]
    ELSE LET source == duplicate_source[k][1]
             end == FollowTarget(duplicate_source[k][2],
                                 DuplicateBound(duplicate_source), duplicate_source)
         IN IF HasData(source, source_title)
              THEN [fatal |-> "duplicate_has_data", titles |-> <<>>]
            ELSE IF ~end.found
              THEN [fatal |-> "duplicate_of_itself", titles |-> <<>>]
            ELSE IF ~DictHas(source_title, end.target)
              THEN [fatal |-> "duplicate_of_nonexistent", titles |-> <<>>]
            ELSE Duplicates(k + 1, duplicate_source,
                            DictSet(source_title, source, DictGet(source_title, end.target)))

\* parse_bdmv_info from line 86 on, the loop over title_ids ending as
\* titles_outcome says: the fatal error, or the mapping it returns.
ParseBdmvInfo(info, titles_outcome) ==
    IF titles_outcome # "" THEN [fatal |-> titles_outcome, titles |-> <<>>]
    ELSE Duplicates(1, info.duplicate_source, SourceTitle(info, BuildTitles(info)))

\* ------------------------------------------------------ scan_bdmv's lookup
\* file + ":" + angle of extract-mkv.py line 239
ScanAngleKey(file, angle) == file \o ":" \o angle

\* the loop over title_file (lines 237-239): the values are title ids
RECURSIVE ScanFileKeys(_, _, _, _)
ScanFileKeys(k, title_file, title_angle, source_title) ==
    IF k > Len(title_file) THEN source_title
    ELSE LET title == title_file[k][1]
             key == IF ~DictHas(title_angle, title) THEN title_file[k][2]
                    ELSE ScanAngleKey(title_file[k][2], DictGet(title_angle, title))
         IN ScanFileKeys(k + 1, title_file, title_angle, DictSet(source_title, key, title))

\* the loops over title_originalid and title_comment (lines 240-243)
RECURSIVE ScanValueKeys(_, _, _)
ScanValueKeys(k, title_value, source_title) ==
    IF k > Len(title_value) THEN source_title
    ELSE ScanValueKeys(k + 1, title_value,
                       DictSet(source_title, title_value[k][2], title_value[k][1]))

\* scan_bdmv's "titles" (lines 236-243). It fills title_file, title_angle,
\* title_originalid and title_comment from the TINFO lines exactly as
\* parse_bdmv_info does (lines 209-223), so it is given the same dicts.
ScanSourceTitle(info) ==
    ScanValueKeys(1, info.title_comment,
      ScanValueKeys(1, info.title_originalid,
        ScanFileKeys(1, info.title_file, info.title_angle, <<>>)))

\* ------------------------------------------- process_config and the driver
\* An output config is a record with its three selector lists and `id`, the
\* identity of the dict (two configs of equal content are two dicts). A
\* source title (source_key) is a pair <<image key, title key>>: the image
\* key is _source[-1], by which found_images is keyed.
ImageOf(source_title) == source_title[1]

\* all_tracks (line 261)
AllTracks(config) == config.video \o config.audio \o config.subtitle

\* title_config["_sources"] (lines 315, 328)
ConfigSources(config) == {ImageOf(source_key(track)) : track \in Range(AllTracks(config))}

\* list(dict.fromkeys(keys)): the distinct keys in order of first occurrence
RECURSIVE FromKeys(_)
FromKeys(keys) ==
    IF keys = <<>> THEN <<>>
    ELSE LET front == FromKeys(SubSeq(keys, 1, Len(keys) - 1))
             last == keys[Len(keys)]
         IN IF last \in Range(front) THEN front ELSE Append(front, last)

\* (variant: only the first source title of the config is handled)
SourceTitlesFirstOnly(config) ==
    LET all_tracks == AllTracks(config) IN
    SubSeq(FromKeys([k \in DOMAIN all_tracks |-> source_key(all_tracks[k])]), 1, 1)

\* source_titles (line 262)
SourceTitles(config) ==
    LET all_tracks == AllTracks(config) IN
    FromKeys([k \in DOMAIN all_tracks |-> source_key(all_tracks[k])])

\* (variant: the title is resolved before it is extracted)
TitleStepsResolveFirst == <<"normalize", "extract">>

\* the two steps of the loop body for one source title (lines 269-270)
TitleSteps == <<"extract", "normalize">>

\* normalize_bdmv_title (lines 175-177): the engine for video, then audio,
\* then subtitle; a list after the one that ends the run is not reached.
\* The lists are written in place, so what was written stays written.
NormalizeBdmvTitle(config, source_title, bdmv, track_mapping) ==
    LET v == NormalizeStreams("video", config.video, source_title, bdmv, track_mapping)
        cv == [config EXCEPT !.video = v.config]
    IN IF v.fatal # "" THEN [config |-> cv, fatal |-> v.fatal]
       ELSE LET a == NormalizeStreams("audio", config.audio, source_title, bdmv, track_mapping)
                ca == [cv EXCEPT !.audio = a.config]
            IN IF a.fatal # "" THEN [config |-> ca, fatal |-> a.fatal]
               ELSE LET u == NormalizeStreams("subtitle", config.subtitle, source_title,
                                              bdmv, track_mapping)
                    IN [config |-> [ca EXCEPT !.subtitle = u.config], fatal |-> u.fatal]

\* (variant: a config is taken up as soon as one of its images is found)
ReadyWithAny(title, found_images) ==
    ConfigSources(title) \cap DOMAIN found_images # {}

\* not (line 358): title["_sources"] <= found_images.keys()
Ready(title, found_images) == ConfigSources(title) \subseteq DOMAIN found_images

\* the test of line 353; an entry without a unit key file has hash ""
\* (None in the script), which is no image key
Matches(entry, required_images) ==
    (entry.hash # "" /\ entry.hash \in required_images) \/ entry.name \in required_images

\* lines 355-356: the scanned image is filed under its hash, if it has
\* one, and under the directory's name
Found(found_images, entry) ==
    LET keys == (IF entry.hash # "" THEN {entry.hash} ELSE {}) \cup {entry.name}
    IN [k \in DOMAIN found_images \cup keys |->
          IF k \in keys THEN entry.name ELSE found_images[k]]

\* dict equality compares what the dicts hold, not which dicts they are
SameContent(a, b) ==
    a.video = b.video /\ a.audio = b.audio /\ a.subtitle = b.subtitle

\* (variant: the config stays in the list)
RemoveNothing(titles, title) == titles

\* titles.remove(title) (line 360): the first element equal to title goes
RemoveTitle(titles, title) ==
    LET eq == {i \in DOMAIN titles : SameContent(titles[i], title)} IN
    IF eq = {} THEN titles
    ELSE SubSeq(titles, 1, Min(eq) - 1) \o SubSeq(titles, Min(eq) + 1, Len(titles))

\* (variant: after a failed resolution the script goes on with the next config)
TerminateSkipsConfig(pc) == [pc EXCEPT !.at = "loop"]

\* (variant: a failed resolution is logged and the config is carried on with)
TerminateIgnored(pc) ==
    IF pc.step = 1 THEN [pc EXCEPT !.step = 2]
    ELSE [pc EXCEPT !.step = 1, !.rest = Tail(@)]

\* exit(1) raises SystemExit, as an error raises its exception: nothing in
\* process_config or the driver catches either, so the run is over
Terminate(pc) == [pc EXCEPT !.at = "ended"]

\* one step of the loop body is done: on to the next step, or source title
Advance(pc) ==
    IF pc.step = 1 THEN [pc EXCEPT !.step = 2]
    ELSE [pc EXCEPT !.step = 1, !.rest = Tail(@)]

\* ------------------------------------------------------------------ state
VARIABLES
    stream_type,     \* the stream type of the list being resolved
    config_streams,  \* config[stream_type]: the selector list, written in place
    bdmv,            \* the disc inventory scan_bdmv returned
    tracks,          \* info["tracks"] of the extracted file of each source title
    disc,            \* per selector, the disc index it resolved to (actual_index)
    warnings,        \* the unused-derived warnings of the last call
    fatal,           \* "" or the place where the run ended
    fatal_at,        \* the position of the selector at which it ended, or 0
    runs,            \* per source title: "no", "once", "again"
    given,           \* the list as the configuration gave it
    parsed,          \* optional: what parse_stream_configs made of the list
    report,          \* the dicts filled from the lines of the disc report so far
    nlines,          \* the number of lines read from the report
    seen,            \* the title ids that TINFO and SINFO lines read so far name
    lookup,          \* the source-key lookup built from the report, and by whom
    export_titles,   \* `titles`: the output configs still to export, in order
    required_images, \* the image keys the configs name (line 335)
    found_images,    \* image key -> name of the scanned directory
    walk,            \* the directory entries the walk has still to meet
    todo,            \* the rest of the copy titles[:] that line 357 iterates
    pc,              \* where the run is, and the config being processed
    started,         \* history: the ids of the configs process_config was called for
    extracted,       \* history: <<config id, source title>> extracted
    resolved,        \* history: <<config id, source title>> the engine returned for
    outputs,         \* history: the configs remuxed, as they were at the remux
    ended            \* history: why and where the run was terminated, if it was

vars == <<stream_type, config_streams, bdmv, tracks, disc, warnings, fatal,
          fatal_at, runs, given, parsed, report, nlines, seen, lookup,
          export_titles, required_images, found_images, walk, todo, pc,
          started, extracted, resolved, outputs, ended>>

report_vars == <<report, nlines, seen, lookup>>
engine_vars == <<stream_type, config_streams, bdmv, tracks, disc, warnings, fatal,
                 fatal_at, runs, given, parsed>>

run_vars == <<export_titles, required_images, found_images, walk, todo, pc,
              started, extracted, resolved, outputs, ended>>

\* no lookup built yet
NoLookup == [by |-> "", fatal |-> "", titles |-> <<>>]
\* The engine is given its inventory; no report is being read.
NoReport == report = EmptyReport /\ nlines = 0 /\ seen = {} /\ lookup = NoLookup

\* no config is being processed
NoConfig == [id |-> 0, video |-> <<>>, audio |-> <<>>, subtitle |-> <<>>]
NotEnded == [why |-> "", id |-> 0, source |-> <<>>]
\* The engine or the report reader is exercised alone; no run is under way.
NoRun ==
    /\ export_titles = <<>> /\ required_images = {} /\ found_images = <<>>
    /\ walk = <<>> /\ todo = <<>>
    /\ pc = [at |-> "walk", step |-> 1, config |-> NoConfig, rest |-> <<>>]
    /\ started = <<>> /\ extracted = {} /\ resolved = {} /\ outputs = <<>>
    /\ ended = NotEnded

\* ----------------------------------------------------------------- inputs
OtherType(t) == CASE t = "video" -> "audio" [] t = "audio" -> "subtitle"
                  [] OTHER -> "video"

\* The inventory of a disc whose source titles `sources` all name title "0",
\* whose streams of type t are `streams`, every other index of the title
\* being a stream of another type, with `derived` flagged derived. The
\* lists are in report order, which is ascending.
Inventory(sources, t, streams, derived) ==
    [x \in {"titles", "derived"} \cup StreamTypes |->
        CASE x = "titles" -> [s \in sources |-> "0"]
          [] x = "derived" -> [i \in {"0"} |-> Sorted(derived)]
          [] x = t -> [i \in {"0"} |-> Sorted(streams)]
          [] x = OtherType(t) -> [i \in {"0"} |-> Sorted(StreamIdx \ streams)]
          [] OTHER -> [i \in {"0"} |-> <<>>]]

\* The track list of a file that kept exactly the streams `kept`: mkvmerge
\* numbers the ids from 0 in file order, and number - 1 is the disc index.
RECURSIVE TracksOf(_)
TracksOf(kept) ==
    IF kept = {} THEN <<>>
    ELSE Append(TracksOf(kept \ {Max(kept)}),
                [number |-> Max(kept) + 1, id |-> Cardinality(kept) - 1])

SeqsUpTo(S, n) == UNION {[1 .. k -> S] : k \in 0 .. n}

\* The selectors of a list as the configuration loader leaves them: an
\* ordinal, which the loader does not check, and no "_track" yet.
Selectors(sources, ordinals, requests, defaults) ==
    [source : sources, index : ordinals, derived : requests,
     default : defaults, track : {{}}]

\* ------------------------------------------------------------------- Spec
\* One list of one stream type resolved against one extracted title. The
\* extraction may have dropped any stream of the list's type.
Init ==
    /\ stream_type \in StreamTypes
    /\ \E streams \in SUBSET StreamIdx, derived \in SUBSET StreamIdx :
          bdmv = Inventory({"A"}, stream_type, streams, derived)
    /\ \E dropped \in SUBSET Range(bdmv[stream_type]["0"]) :
          tracks = [s \in {"A"} |-> TracksOf(StreamIdx \ dropped)]
    /\ config_streams \in SeqsUpTo(Selectors({"A"}, 0 .. MaxOrd, BOOLEAN, {{}}), MaxSel)
    /\ disc = [i \in DOMAIN config_streams |-> {}]
    /\ warnings = <<>>
    /\ fatal = ""
    /\ fatal_at = 0
    /\ runs = [s \in {"A"} |-> "no"]
    /\ given = config_streams
    /\ parsed = {}
    /\ NoReport
    /\ NoRun

\* normalize_bdmv_title builds track_mapping from the extracted file and
\* calls normalize_bdmv_title_streams for the list.
Call(source_title) ==
    \E r \in {NormalizeStreams(stream_type, config_streams, source_title, bdmv,
                                TrackMapping(tracks[source_title]))} :
       /\ config_streams' = r.config
       /\ disc' = [i \in DOMAIN disc |-> IF r.disc[i] # {} THEN r.disc[i] ELSE disc[i]]
       /\ warnings' = r.warnings
       /\ fatal' = r.fatal
       /\ fatal_at' = r.at
       /\ runs' = [runs EXCEPT ![source_title] =
                      IF r.fatal # "" THEN @ ELSE IF @ = "no" THEN "once" ELSE "again"]
       /\ UNCHANGED <<stream_type, bdmv, tracks, given, parsed>>
       /\ UNCHANGED report_vars
       /\ UNCHANGED run_vars

Normalize(source_title) ==
    /\ fatal = ""
    /\ runs[source_title] = "no"
    /\ Call(source_title)

Next == \E source_title \in DOMAIN tracks : Normalize(source_title)

Spec == Init /\ [][Next]_vars

\* ---------------------------------------------------------------- SpecOrd
\* As Spec, for a list of at most one selector whose ordinal may be
\* negative: the loader takes int(track["index"]) as it is written.
InitOrd ==
    /\ stream_type \in StreamTypes
    /\ \E streams \in SUBSET StreamIdx, derived \in SUBSET StreamIdx :
          bdmv = Inventory({"A"}, stream_type, streams, derived)
    /\ \E dropped \in SUBSET Range(bdmv[stream_type]["0"]) :
          tracks = [s \in {"A"} |-> TracksOf(StreamIdx \ dropped)]
    /\ config_streams \in
          {<<>>} \cup {<<c>> : c \in Selectors({"A"}, (0 - MaxOrd - 1) .. MaxOrd, BOOLEAN, {{}})}
    /\ disc = [i \in DOMAIN config_streams |-> {}]
    /\ warnings = <<>>
    /\ fatal = ""
    /\ fatal_at = 0
    /\ runs = [s \in {"A"} |-> "no"]
    /\ given = config_streams
    /\ parsed = {}
    /\ NoReport
    /\ NoRun

SpecOrd == InitOrd /\ [][Next]_vars

\* -------------------------------------------------------------- SpecMulti
\* One list whose selectors refer to two source titles, A and B, resolved
\* once per source title as process_config does, and again. Both source
\* keys name title "0", whose streams are all of the list's type; the
\* extraction kept all but the first, so container ids and disc indices
\* differ.
InitMulti ==
    /\ stream_type \in StreamTypes
    /\ \E derived \in SUBSET StreamIdx :
          bdmv = Inventory({"A", "B"}, stream_type, StreamIdx, derived)
    /\ tracks = [s \in {"A", "B"} |-> TracksOf(StreamIdx \ {0})]
    /\ config_streams \in
          SeqsUpTo(Selectors({"A", "B"}, {0}, BOOLEAN, {{}, {TRUE}, {FALSE}}), MaxSel)
    /\ disc = [i \in DOMAIN config_streams |-> {}]
    /\ warnings = <<>>
    /\ fatal = ""
    /\ fatal_at = 0
    /\ runs = [s \in {"A", "B"} |-> "no"]
    /\ given = config_streams
    /\ parsed = {}
    /\ NoReport
    /\ NoRun

\* The first call for a source title, by the running script.
NormalizeFirst(source_title) ==
    /\ parsed = {}
    /\ Normalize(source_title)

\* A second call for a source title whose selectors are already resolved.
Renormalize(source_title) ==
    /\ fatal = ""
    /\ runs[source_title] # "no"
    /\ Call(source_title)

\* config.parse_stream_configs applied to the list as configured: the
\* loader of src/config.py, which the running script does not use.
ParseConfigs ==
    /\ parsed = {}
    /\ \A s \in DOMAIN runs : runs[s] = "no"
    /\ fatal = ""
    /\ parsed' = {ParseStreamConfigs(given)}
    /\ UNCHANGED <<stream_type, config_streams, bdmv, tracks, disc, warnings,
                   fatal, fatal_at, runs, given>>
    /\ UNCHANGED report_vars
    /\ UNCHANGED run_vars

NextMulti ==
    \/ \E source_title \in DOMAIN tracks : NormalizeFirst(source_title)
    \/ \E source_title \in DOMAIN tracks : Renormalize(source_title)
    \/ ParseConfigs

SpecMulti == InitMulti /\ [][NextMulti]_vars

\* --------------------------------------------------------------- SpecInfo
\* The disc report read line by line, and the lookup built from what has
\* been read, by parse_bdmv_info or by scan_bdmv.
MaxLines == 4

TitleIds == {"0", "1"}
FileNames == {"a", "b"}
Angles == {"1"}
OriginalIds == {"a"}
Comments == {"a", "b"}
DuplicateKeys == {"a", "b", "c"}

OutputLines(title) ==
    <<TInfoLine(title, MAKEMKV_OUTPUTFILENAME, "t.mkv", 0),
      TInfoLine(title, MAKEMKV_OUTPUTSIZEBYTES, "", 1)>>

\* the lines a report may hold
ReportLines ==
    UNION {
      {TInfoLine(t, MAKEMKV_SOURCEFILENAME, v, 0) : t \in TitleIds, v \in FileNames},
      {TInfoLine(t, MAKEMKV_ANGLEINFO, v, 0) : t \in TitleIds, v \in Angles},
      {TInfoLine(t, MAKEMKV_ORIGINALTITLEID, v, 0) : t \in TitleIds, v \in OriginalIds},
      {TInfoLine(t, MAKEMKV_COMMENT, v, 0) : t \in TitleIds, v \in Comments},
      UNION {Range(OutputLines(t)) : t \in TitleIds},
      {SInfoLine(t, 0, MAKEMKV_TYPE, MAKEMKV_TYPE_VIDEO, 0) : t \in TitleIds},
      {MsgLine(MAKEMKV_MSG_DUPLICATETITLE, <<x, y>>) : x \in DuplicateKeys, y \in DuplicateKeys},
      {MsgLine(0, <<>>)} }

\* The report begins with the output file and size of some of the titles.
InitInfo ==
    /\ stream_type = "video"
    /\ config_streams = <<>>
    /\ bdmv = Inventory({"A"}, "video", {}, {})
    /\ tracks = [s \in {"A"} |-> <<>>]
    /\ disc = <<>>
    /\ warnings = <<>>
    /\ fatal = ""
    /\ fatal_at = 0
    /\ runs = [s \in {"A"} |-> "no"]
    /\ given = <<>>
    /\ parsed = {}
    /\ seen \in SUBSET TitleIds
    /\ report = ReadLines(EmptyReport,
                    (IF "0" \in seen THEN OutputLines("0") ELSE <<>>)
                    \o (IF "1" \in seen THEN OutputLines("1") ELSE <<>>))
    /\ nlines = 0
    /\ lookup = NoLookup
    /\ NoRun

\* the next line of the report is read
Read(line) ==
    /\ lookup.by = ""
    /\ nlines < MaxLines
    /\ report' = ReadLine(report, line)
    /\ nlines' = nlines + 1
    /\ seen' = IF line.kind \in {"TINFO", "SINFO"} THEN seen \cup {line.title} ELSE seen
    /\ UNCHANGED lookup
    /\ UNCHANGED engine_vars
    /\ UNCHANGED run_vars

\* the report has ended: parse_bdmv_info builds its mapping, or ends the run
Parse ==
    /\ lookup.by = ""
    /\ \E titles_outcome \in TitlesOutcomes(report) :
         \E r \in {ParseBdmvInfo(report, titles_outcome)} :
            lookup' = [by |-> "parse_bdmv_info", fatal |-> r.fatal, titles |-> r.titles]
    /\ UNCHANGED <<report, nlines, seen>>
    /\ UNCHANGED engine_vars
    /\ UNCHANGED run_vars

\* the report has ended: scan_bdmv builds its "titles"
Scan ==
    /\ lookup.by = ""
    /\ lookup' = [by |-> "scan_bdmv", fatal |-> "", titles |-> ScanSourceTitle(report)]
    /\ UNCHANGED <<report, nlines, seen>>
    /\ UNCHANGED engine_vars
    /\ UNCHANGED run_vars

NextInfo ==
    \/ \E line \in ReportLines : Read(line)
    \/ Parse
    \/ Scan

SpecInfo == InitInfo /\ [][NextInfo]_vars

\* ---------------------------------------------------------------- SpecRun
\* The whole run: the directory walk of lines 338-362 and process_config
\* for every config whose images have all been found. The walk is the
\* sequence of directory entries in the order in which the script meets
\* them; the order of os.scandir and of the path queue is not fixed, so
\* every order is a walk. Every image holds the one title "t": one video
\* stream, disc index 0, the other indices being audio streams, none
\* derived.
MaxEntries == 3

RunSources == {<<"X", "t">>, <<"Y", "t">>}

\* Directory entries: the images X and Y under their names, a directory Z
\* whose unit key hash is the key Y, and a directory that is no image.
Entries ==
    {[name |-> "X", hash |-> ""], [name |-> "Y", hash |-> ""],
     [name |-> "Z", hash |-> "Y"], [name |-> "W", hash |-> ""]}

\* The selector lists of a config: X's video by ordinal 0 or 1 (one past the
\* end), with or without a derived request (X has no derived stream), and
\* Y's video and first audio stream by ordinal 0.
VideoX == Selectors({<<"X", "t">>}, 0 .. 1, BOOLEAN, {{}})
VideoY == Selectors({<<"Y", "t">>}, {0}, {FALSE}, {{}})
GoodX == [source |-> <<"X", "t">>, index |-> 0, derived |-> FALSE, default |-> {}, track |-> {}]
GoodY == [source |-> <<"Y", "t">>, index |-> 0, derived |-> FALSE, default |-> {}, track |-> {}]

ConfigLists ==
    {[video |-> <<c>>, audio |-> <<>>, subtitle |-> <<>>] : c \in VideoX \cup VideoY}
    \cup {[video |-> <<GoodX, GoodY>>, audio |-> <<>>, subtitle |-> <<>>],
          [video |-> <<GoodY, GoodX>>, audio |-> <<>>, subtitle |-> <<>>],
          [video |-> <<GoodX>>, audio |-> <<GoodY>>, subtitle |-> <<>>]}

TitleConfig(n, lists) ==
    [id |-> n, video |-> lists.video, audio |-> lists.audio, subtitle |-> lists.subtitle]

\* One or two configs to export; X's extracted file is complete, Y's is
\* complete or lacks the video stream.
InitRun ==
    /\ stream_type = "video"
    /\ config_streams = <<>>
    /\ bdmv = Inventory(RunSources, "video", {0}, {})
    /\ \E dropped \in {{}, {0}} :
          tracks = [s \in RunSources |->
                      IF ImageOf(s) = "Y" THEN TracksOf(StreamIdx \ dropped)
                      ELSE TracksOf(StreamIdx)]
    /\ disc = <<>>
    /\ warnings = <<>>
    /\ fatal = ""
    /\ fatal_at = 0
    /\ runs = [s \in RunSources |-> "no"]
    /\ given = <<>>
    /\ parsed = {}
    /\ NoReport
    /\ export_titles \in
          {<<TitleConfig(1, a)>> : a \in ConfigLists}
          \cup {<<TitleConfig(1, a), TitleConfig(2, b)>> : a \in ConfigLists, b \in ConfigLists}
    /\ required_images = UNION {ConfigSources(title) : title \in Range(export_titles)}
    /\ found_images = <<>>
    /\ walk \in SeqsUpTo(Entries, MaxEntries)
    /\ todo = <<>>
    /\ pc = [at |-> "walk", step |-> 1, config |-> NoConfig, rest |-> <<>>]
    /\ started = <<>>
    /\ extracted = {}
    /\ resolved = {}
    /\ outputs = <<>>
    /\ ended = NotEnded

\* the first reason for which the run was terminated is the one kept
EndedBy(why) ==
    IF ended.why # "" THEN ended
    ELSE [why |-> why, id |-> pc.config.id, source |-> Head(pc.rest)]

\* lines 347-357: the entry is a required image; it is scanned and filed,
\* and the loop over a copy of the configs begins
ScanImage ==
    /\ pc.at = "walk"
    /\ walk # <<>>
    /\ Matches(Head(walk), required_images)
    /\ found_images' = Found(found_images, Head(walk))
    /\ walk' = Tail(walk)
    /\ todo' = export_titles
    /\ pc' = [pc EXCEPT !.at = "loop"]
    /\ UNCHANGED <<export_titles, required_images, started, extracted, resolved,
                   outputs, ended>>
    /\ UNCHANGED engine_vars
    /\ UNCHANGED report_vars

\* lines 361-362: any other entry; a directory that is no image is queued,
\* and what it holds comes later in the walk
SkipEntry ==
    /\ pc.at = "walk"
    /\ walk # <<>>
    /\ ~Matches(Head(walk), required_images)
    /\ walk' = Tail(walk)
    /\ UNCHANGED <<export_titles, required_images, found_images, todo, pc, started,
                   extracted, resolved, outputs, ended>>
    /\ UNCHANGED engine_vars
    /\ UNCHANGED report_vars

\* line 358: an image of the config is still missing
SkipConfig ==
    /\ pc.at = "loop"
    /\ todo # <<>>
    /\ ~Ready(Head(todo), found_images)
    /\ todo' = Tail(todo)
    /\ UNCHANGED <<export_titles, required_images, found_images, walk, pc, started,
                   extracted, resolved, outputs, ended>>
    /\ UNCHANGED engine_vars
    /\ UNCHANGED report_vars

\* lines 359, 257-263: process_config is called for the config
ProcessConfig ==
    /\ pc.at = "loop"
    /\ todo # <<>>
    /\ Ready(Head(todo), found_images)
    /\ todo' = Tail(todo)
    /\ pc' = [at |-> "title", step |-> 1, config |-> Head(todo),
              rest |-> SourceTitles(Head(todo))]
    /\ started' = Append(started, Head(todo).id)
    /\ UNCHANGED <<export_titles, required_images, found_images, walk, extracted,
                   resolved, outputs, ended>>
    /\ UNCHANGED engine_vars
    /\ UNCHANGED report_vars

\* the copy is exhausted: back to the directory entries
EndOfTitles ==
    /\ pc.at = "loop"
    /\ todo = <<>>
    /\ pc' = [pc EXCEPT !.at = "walk"]
    /\ UNCHANGED <<export_titles, required_images, found_images, walk, todo, started,
                   extracted, resolved, outputs, ended>>
    /\ UNCHANGED engine_vars
    /\ UNCHANGED report_vars

\* lines 265-269: the image is looked up and the title extracted to its
\* file. An image key that found_images lacks is a KeyError at line 265.
ExtractTitle ==
    /\ pc.at = "title"
    /\ pc.rest # <<>>
    /\ TitleSteps[pc.step] = "extract"
    /\ IF ImageOf(Head(pc.rest)) \in DOMAIN found_images
         THEN /\ extracted' = extracted \cup {<<pc.config.id, Head(pc.rest)>>}
              /\ pc' = Advance(pc)
              /\ UNCHANGED ended
         ELSE /\ ended' = EndedBy("KeyError")
              /\ pc' = Terminate(pc)
              /\ UNCHANGED extracted
    /\ UNCHANGED <<export_titles, required_images, found_images, walk, todo, started,
                   resolved, outputs>>
    /\ UNCHANGED engine_vars
    /\ UNCHANGED report_vars

\* lines 181-193, 64-86: the title is unknown to the image, makemkvcon
\* fails, or the file it should have written is not there
ExtractFails ==
    /\ pc.at = "title"
    /\ pc.rest # <<>>
    /\ TitleSteps[pc.step] = "extract"
    /\ ImageOf(Head(pc.rest)) \in DOMAIN found_images
    /\ ended' = EndedBy("extract")
    /\ pc' = Terminate(pc)
    /\ UNCHANGED <<export_titles, required_images, found_images, walk, todo, started,
                   extracted, resolved, outputs>>
    /\ UNCHANGED engine_vars
    /\ UNCHANGED report_vars

\* line 270: the engine runs for the three lists against the extracted
\* file. The config is the dict the list of configs holds, so what is
\* written to it is written there too.
NormalizeTitle ==
    /\ pc.at = "title"
    /\ pc.rest # <<>>
    /\ TitleSteps[pc.step] = "normalize"
    /\ \E r \in {NormalizeBdmvTitle(pc.config, Head(pc.rest), bdmv,
                                    TrackMapping(tracks[Head(pc.rest)]))} :
         /\ export_titles' =
               [i \in DOMAIN export_titles |->
                  IF export_titles[i].id = pc.config.id THEN r.config
                  ELSE export_titles[i]]
         /\ IF r.fatal = ""
              THEN /\ resolved' = resolved \cup {<<pc.config.id, Head(pc.rest)>>}
                   /\ pc' = Advance([pc EXCEPT !.config = r.config])
                   /\ UNCHANGED ended
              ELSE /\ ended' = EndedBy(r.fatal)
                   /\ pc' = Terminate([pc EXCEPT !.config = r.config])
                   /\ UNCHANGED resolved
    /\ UNCHANGED <<required_images, found_images, walk, todo, started, extracted,
                   outputs>>
    /\ UNCHANGED engine_vars
    /\ UNCHANGED report_vars

\* lines 291-296 and 360: every source title is done; mkvmerge writes the
\* output file, process_config returns and the config leaves the list
RemuxConfig ==
    /\ pc.at = "title"
    /\ pc.rest = <<>>
    /\ outputs' = Append(outputs, pc.config)
    /\ export_titles' = RemoveTitle(export_titles, pc.config)
    /\ pc' = [at |-> "loop", step |-> 1, config |-> NoConfig, rest |-> <<>>]
    /\ UNCHANGED <<required_images, found_images, walk, todo, started, extracted,
                   resolved, ended>>
    /\ UNCHANGED engine_vars
    /\ UNCHANGED report_vars

\* lines 295, 64-86: mkvmerge fails and exec raises
RemuxFails ==
    /\ pc.at = "title"
    /\ pc.rest = <<>>
    /\ ended' = [why |-> "remux", id |-> pc.config.id, source |-> <<>>]
    /\ pc' = Terminate(pc)
    /\ UNCHANGED <<export_titles, required_images, found_images, walk, todo, started,
                   extracted, resolved, outputs>>
    /\ UNCHANGED engine_vars
    /\ UNCHANGED report_vars

NextRun ==
    \/ ScanImage
    \/ SkipEntry
    \/ SkipConfig
    \/ ProcessConfig
    \/ EndOfTitles
    \/ ExtractTitle
    \/ ExtractFails
    \/ NormalizeTitle
    \/ RemuxConfig
    \/ RemuxFails

SpecRun == InitRun /\ [][NextRun]_vars

\* ------------------------------------------------- what the claims speak of
\* The title's inventory and the extracted file, read off the inputs.
TitleStreams == Range(bdmv[stream_type]["0"])
TitleDerived == Range(bdmv["derived"]["0"])
ActualSet == TitleStreams \ TitleDerived
NumActual == Cardinality(ActualSet)
\* actual[j], j zero-based: the actual index with exactly j actual indices below it
ActualAt(j) == CHOOSE x \in ActualSet : Cardinality({y \in ActualSet : y < x}) = j
KeptIdx(s) == {tracks[s][k].number - 1 : k \in DOMAIN tracks[s]}
ContainerId(s, d) ==
    tracks[s][CHOOSE k \in DOMAIN tracks[s] : tracks[s][k].number - 1 = d].id

\* The call for source title s has been made (it returned or ended the run).
Called(s) == runs[s] # "no" \/ fatal # ""
\* The loop of the last call got as far as selector i.
Reached(i) == fatal_at = 0 \/ i <= fatal_at
EndsAt(i, place) == fatal = place /\ fatal_at = i /\ disc[i] = {} /\ config_streams[i].track = {}

InRange(c) == 0 <= c.index /\ c.index < NumActual
\* Step A's result for a selector whose ordinal is in range
StepA(c) == IF c.derived THEN ActualAt(c.index) + 1 ELSE ActualAt(c.index)
StepAOk(c) == InRange(c) /\ (c.derived => StepA(c) \in TitleStreams \cap TitleDerived)

\* C1: for every selector without a derived request that the call reached,
\* an ordinal >= len(actual) ends the run at that selector; otherwise the
\* selector's resolved disc index is actual[ordinal] (or the run ends there
\* because that index is absent from the extracted file, Step B).
C1_OrdinalResolution ==
    Called("A") =>
      \A i \in DOMAIN config_streams :
        LET c == config_streams[i] IN
        (~c.derived /\ Reached(i)) =>
           IF c.index >= NumActual THEN EndsAt(i, "ordinal")
           ELSE \/ disc[i] = {ActualAt(c.index)}
                \/ ActualAt(c.index) \notin KeptIdx("A") /\ EndsAt(i, "absent")

\* video/audio/subtitle = {1,2} with 2 derived: ordinal 0 resolved to disc
\* index 1, and the next selector's ordinal 1 ended the run.
C1_Witness ==
    /\ Len(config_streams) = 2
    /\ ~config_streams[1].derived /\ config_streams[1].index = 0 /\ disc[1] = {1}
    /\ ~config_streams[2].derived /\ config_streams[2].index = 1
    /\ fatal = "ordinal" /\ fatal_at = 2

\* C2: a selector with an in-range ordinal that requests the derived sibling
\* of actual stream a, a + 1 being in the extracted file, resolves to a + 1
\* iff a + 1 is a stream of the selector's type and is flagged derived;
\* otherwise the run ends at that selector.
C2_DerivedSibling ==
    Called("A") =>
      \A i \in DOMAIN config_streams :
        LET c == config_streams[i] IN
        (c.derived /\ Reached(i) /\ InRange(c) /\ ActualAt(c.index) + 1 \in KeptIdx("A")) =>
           LET sib == ActualAt(c.index) + 1 IN
           IF sib \in TitleStreams /\ sib \in TitleDerived
             THEN disc[i] = {sib} /\ c.track # {} /\ ~(fatal_at = i)
             ELSE EndsAt(i, "derived")

\* The sibling of the second actual stream was resolved.
C2_Witness ==
    /\ Len(config_streams) >= 1 /\ NumActual = 2
    /\ config_streams[1].derived /\ config_streams[1].index = 1
    /\ disc[1] = {ActualAt(1) + 1} /\ config_streams[1].track # {}
    /\ fatal = ""

\* C4: for every selector the call reached and Step A resolved, a disc index
\* that is not (reported number - 1) of some container track ends the run at
\* that selector; otherwise the selector's track id is the id of the track
\* with that number.
C4_ContainerId ==
    Called("A") =>
      \A i \in DOMAIN config_streams :
        LET c == config_streams[i] IN
        (Reached(i) /\ StepAOk(c)) =>
           IF StepA(c) \notin KeptIdx("A") THEN EndsAt(i, "absent")
           ELSE c.track = {ContainerId("A", StepA(c))} /\ disc[i] = {StepA(c)}

\* Stream 0 was dropped: disc index 1 got container id 0, and the selector
\* resolved to disc index 0 ended the run.
C4_Witness ==
    /\ Len(config_streams) = 2
    /\ disc[1] = {1} /\ config_streams[1].track = {0}
    /\ 0 \notin KeptIdx("A") /\ StepAOk(config_streams[2]) /\ StepA(config_streams[2]) = 0
    /\ fatal = "absent" /\ fatal_at = 2

\* The warning pass, read off the inputs and the resolved disc indices.
AllResolved == Called("A") /\ \A i \in DOMAIN config_streams : disc[i] # {}
Used == UNION {disc[i] : i \in DOMAIN config_streams}
HasAttached(d) == \E a \in ActualSet : a <= d
Attached(d) == Max({a \in ActualSet : a <= d})
\* a derived index of the type that no selector resolved to and whose
\* attached actual stream some selector resolved to
UnusedOfSelected(d) ==
    /\ d \in TitleStreams \cap TitleDerived
    /\ d \notin Used
    /\ HasAttached(d) /\ Attached(d) \in Used
WarningsFor(d) == Cardinality({k \in DOMAIN warnings : warnings[k].derived = d})
\* the surviving, unselected derived indices with no actual index <= them:
\* max() raises on the first of them in report order
NoActualBelow ==
    {d \in (TitleStreams \cap TitleDerived) \cap KeptIdx("A") :
        d \notin Used /\ ~HasAttached(d)}
WritesAsResolved ==
    \A i \in DOMAIN config_streams :
        /\ config_streams[i].track = {ContainerId("A", CHOOSE d \in disc[i] : TRUE)}
        /\ config_streams[i].default = {}

AnyGivenTrue == \E i \in DOMAIN given : given[i].default = {TRUE}
\* the default flag the inference owes selector i
InferredDefault(i) ==
    IF given[i].default # {} THEN given[i].default
    ELSE IF AnyGivenTrue THEN {FALSE} ELSE {}

\* C3: in a list with some default = true, every selector that is resolved
\* has default = false if it gave none and its own value if it gave one (so
\* the whole list has once it is resolved for each source title); with no
\* default = true no default is ever added; an explicit default never
\* changes; a selector not yet resolved is as given. The list that
\* parse_stream_configs returns has the same defaults.
C3_DefaultInference ==
    /\ \A i \in DOMAIN config_streams :
          config_streams[i].default =
             IF config_streams[i].track # {} THEN InferredDefault(i)
             ELSE given[i].default
    /\ (fatal = "" /\ \A s \in DOMAIN runs : runs[s] # "no") =>
          \A i \in DOMAIN config_streams : config_streams[i].track # {}
    /\ \A p \in parsed :
          /\ DOMAIN p = DOMAIN given
          /\ \A i \in DOMAIN p :
                p[i] = [given[i] EXCEPT !.default = InferredDefault(i)]

\* A's selector sets default = true, B's gives none: both are resolved and
\* B's has default = false.
C3_Witness ==
    /\ Len(config_streams) = 2
    /\ given[1].source = "A" /\ given[1].default = {TRUE}
    /\ given[2].source = "B" /\ given[2].default = {}
    /\ config_streams[1].track # {} /\ config_streams[2].track # {}
    /\ config_streams[2].default = {FALSE}

\* C10: a call for a source title whose selectors the first call resolved
\* returns and leaves every selector (resolved track id and default flag
\* included) and every resolved disc index as they were.
C10_Idempotent ==
    [][(\E s \in DOMAIN runs : Renormalize(s)) =>
          /\ fatal' = ""
          /\ config_streams' = config_streams
          /\ disc' = disc]_vars

\* The second call for A has returned: its selector, which took the derived
\* sibling, holds a track id other than its ordinal and an inferred default.
C10_Witness ==
    /\ runs["A"] = "again"
    /\ \E i \in DOMAIN config_streams :
          /\ given[i].source = "A" /\ given[i].derived /\ given[i].default = {}
          /\ config_streams[i].track # {} /\ config_streams[i].track # {given[i].index}
          /\ config_streams[i].default = {FALSE}

\* ------------------------------------------------------ the title lookup
\* What the report read so far says, read off the dicts and the lines.
Parsed == lookup.by = "parse_bdmv_info"
Returned == Parsed /\ lookup.fatal = ""
Scanned == lookup.by = "scan_bdmv"
LookupKeys == DictKeys(lookup.titles)
Relations == report.duplicate_source
DupSources == DictKeys(Relations)

\* the key of a title with a source filename, the angle written as asked
FileKeyOf(t, angled) ==
    LET file == DictGet(report.title_file, t) IN
    IF ~DictHas(report.title_angle, t) THEN file
    ELSE IF angled = "paren" THEN file \o "(" \o DictGet(report.title_angle, t) \o ")"
    ELSE file \o ":" \o DictGet(report.title_angle, t)
FileTitles(k, angled) == {t \in DictKeys(report.title_file) : FileKeyOf(t, angled) = k}
OrigTitles(k) ==
    {t \in DictKeys(report.title_originalid) : DictGet(report.title_originalid, t) = k}
CommentTitles(k) ==
    {t \in DictKeys(report.title_comment) : DictGet(report.title_comment, t) = k}
\* the keys of steps 1 to 3
StepKeys(angled) ==
    {FileKeyOf(t, angled) : t \in DictKeys(report.title_file)}
    \cup {DictGet(report.title_originalid, t) : t \in DictKeys(report.title_originalid)}
    \cup {DictGet(report.title_comment, t) : t \in DictKeys(report.title_comment)}
\* the titles of the latest step that gives key k
Owners(k, angled) ==
    IF CommentTitles(k) # {} THEN CommentTitles(k)
    ELSE IF OrigTitles(k) # {} THEN OrigTitles(k)
    ELSE FileTitles(k, angled)

\* the keys a source key's chain of relations passes after the source
ChainStep(K) == K \cup {DictGet(Relations, k) : k \in K \cap DupSources}
RECURSIVE ChainClosure(_, _)
ChainClosure(K, n) == IF n = 0 THEN K ELSE ChainClosure(ChainStep(K), n - 1)
Chain(s) == ChainClosure({DictGet(Relations, s)}, Cardinality(DupSources))
Cyclic(s) == Chain(s) \subseteq DupSources
Terminal(s) == CHOOSE k \in Chain(s) : k \notin DupSources

\* C6: a source key whose chain ends at a key of a real title is mapped to
\* that title's record; a source key whose chain enters a cycle ends the
\* run; the run is ended as "a duplicate of itself" only if some chain is
\* cyclic.
C6_DuplicateChain ==
    Parsed =>
      /\ (\E s \in DupSources : Cyclic(s)) => lookup.fatal # "" /\ lookup.titles = <<>>
      /\ lookup.fatal = "duplicate_of_itself" => \E s \in DupSources : Cyclic(s)
      /\ lookup.fatal = "" =>
            \A s \in DupSources :
               /\ Terminal(s) \in StepKeys("paren")
               /\ DictHas(lookup.titles, s)
               /\ DictGet(lookup.titles, s) = DictGet(lookup.titles, Terminal(s))
               /\ DictGet(lookup.titles, s) =
                     TitleRecord(DictGet(lookup.titles, s).title_id, report)
               /\ DictGet(lookup.titles, s).title_id \in Owners(Terminal(s), "paren")

\* Two relations in one chain, c -> b -> a: c and b are mapped to the
\* record of title 0, whose file is a.
C6_Witness ==
    /\ Returned
    /\ Relations = <<<<"c", "b">>, <<"b", "a">>>>
    /\ FileTitles("a", "paren") = {"0"}
    /\ DictGet(lookup.titles, "c").title_id = "0"
    /\ DictGet(lookup.titles, "b").title_id = "0"

\* the relations whose source key is a key of steps 1 to 3
HasDataSources == DupSources \cap StepKeys("paren")
\* the relations whose chain ends at a key that is no key of steps 1 to 3
Dangling == {s \in DupSources : ~Cyclic(s) /\ Terminal(s) \notin StepKeys("paren")}

\* C7: a relation whose source key is a resolved key ends the run, and so
\* does one whose terminal target is no resolved key; the run is ended for
\* these reasons only when such a relation exists; every key of a returned
\* mapping maps to the record of a title with an output file and a size.
C7_DuplicateValidation ==
    Parsed =>
      /\ (HasDataSources # {} \/ Dangling # {}) =>
            lookup.fatal # "" /\ lookup.titles = <<>>
      /\ lookup.fatal = "duplicate_has_data" => HasDataSources # {}
      /\ lookup.fatal = "duplicate_of_nonexistent" => Dangling # {}
      /\ lookup.fatal = "" =>
            \A i \in DOMAIN lookup.titles :
               LET title == lookup.titles[i][2] IN
               /\ DictHas(report.title_output, title.title_id)
               /\ DictHas(report.title_bytes, title.title_id)
               /\ title.output_file = DictGet(report.title_output, title.title_id)
               /\ title.output_bytes = DictGet(report.title_bytes, title.title_id)

\* The relation a -> b, a being the file of title 0 and b that of title 1,
\* both with an output file and a size, ended the run.
C7_Witness ==
    /\ Parsed /\ lookup.fatal = "duplicate_has_data"
    /\ Relations = <<<<"a", "b">>>>
    /\ FileTitles("a", "paren") = {"0"} /\ FileTitles("b", "paren") = {"1"}
    /\ DictHas(report.title_bytes, "0") /\ DictHas(report.title_bytes, "1")

\* the titles of the report that lack an output file or a size
Lacking ==
    {t \in seen : ~DictHas(report.title_output, t) \/ ~DictHas(report.title_bytes, t)}

\* C8: if a title named by a TINFO or SINFO line lacks an output file or a
\* size, parse_bdmv_info ends the run for one such title and returns no
\* mapping; if no title does, the run is not ended for this reason.
C8_IncompleteInventory ==
    Parsed =>
      IF Lacking # {}
        THEN /\ lookup.titles = <<>>
             /\ \E t \in Lacking :
                   lookup.fatal = IF ~DictHas(report.title_output, t)
                                    THEN "no_output_file" ELSE "no_output_size"
        ELSE lookup.fatal \notin {"no_output_file", "no_output_size"}

\* Title 1 is named by a SINFO line only; title 0 has its file and size.
C8_Witness ==
    /\ Parsed /\ lookup.fatal = "no_output_file"
    /\ seen = {"0", "1"}
    /\ DictHas(report.stream_video, "1")
    /\ DictKeys(report.title_output) = {"0"} /\ DictKeys(report.title_bytes) = {"0"}

\* The keys of steps 1 to 3 in both lookups, scan_bdmv writing the angle
\* as `angled` says: every key of the steps is a key of the lookup and maps
\* to a title of the latest step that gives it; the lookup has no other
\* keys but the sources of the duplicate relations.
KeysBuilt(angled) ==
    /\ Returned =>
          /\ StepKeys("paren") \subseteq LookupKeys
          /\ LookupKeys \subseteq StepKeys("paren") \cup DupSources
          /\ \A k \in StepKeys("paren") :
                DictGet(lookup.titles, k).title_id \in Owners(k, "paren")
    /\ Scanned =>
          /\ LookupKeys = StepKeys(angled)
          /\ \A k \in StepKeys(angled) :
                DictGet(lookup.titles, k) \in Owners(k, angled)

\* C9 as stated: parse_bdmv_info and scan_bdmv both give a title with a
\* file the key filename or filename(angle), every original id and comment
\* is a key, and a key maps to a title of the latest step that gives it.
C9_AsStated == KeysBuilt("paren")

\* C9 amended: as stated for parse_bdmv_info; scan_bdmv builds the same
\* keys except that it writes the key of a title with an angle as
\* filename:angle.
C9_SourceKeys == KeysBuilt("colon")

\* scan_bdmv: title 0 with file a and angle 1 has the key a:1, and the
\* comment b of title 0 has taken the key b from the file of title 1.
C9_Witness ==
    /\ Scanned
    /\ DictHas(lookup.titles, "a:1") /\ DictGet(lookup.titles, "a:1") = "0"
    /\ FileTitles("b", "colon") = {"1"} /\ CommentTitles("b") = {"0"}
    /\ DictGet(lookup.titles, "b") = "0"

\* ------------------------------------------------- the warning pass, again
\* C14: every warning is about a derived stream of the type that no
\* selector resolved to and whose attached actual stream (the largest
\* actual index <= it) some selector resolved to; so a derived stream that
\* was resolved to, or whose attached actual stream was not, gets none.
C14_WarningNegative ==
    \A k \in DOMAIN warnings :
       LET d == warnings[k].derived IN
       /\ d \in TitleStreams \cap TitleDerived
       /\ d \notin Used
       /\ HasAttached(d) /\ Attached(d) \in Used

\* Streams {0,1,2} of a video list, 1 derived and in the file: the selector
\* took actual stream 2, stream 1 is attached to stream 0, which nobody
\* took, and there is no warning.
C14_Witness ==
    /\ stream_type = "video" /\ AllResolved /\ fatal = ""
    /\ TitleStreams = {0, 1, 2} /\ TitleDerived \cap TitleStreams = {1}
    /\ 1 \in KeptIdx("A")
    /\ Used = {2}
    /\ warnings = <<>>

\* C16 as stated: whenever all selectors of the list resolve, the warning
\* pass completes normally (every derived index of the inventory is a
\* stream of the title), also when a derived index of the type has no
\* actual index <= it.
C16_AsStated ==
    (AllResolved /\ TitleDerived \subseteq StreamIdx) => fatal = ""

\* C16, what the pass does instead: it ends the run exactly when a derived
\* index of the type that is in the file and that no selector resolved to
\* has no actual index <= it.
C16_PassEndsRun ==
    AllResolved => ((fatal = "ValueError") = (NoActualBelow # {} /\ stream_type # "audio"))

\* Streams {0,1} of a subtitle list with 0 derived: ordinal 0 resolved to
\* disc index 1, and the pass ended the run at derived index 0.
C16_Witness ==
    /\ stream_type = "subtitle" /\ AllResolved
    /\ TitleStreams = {0, 1} /\ TitleDerived \cap TitleStreams = {0}
    /\ Used = {1}
    /\ fatal = "ValueError"

\* ------------------------------------------------------------ type safety
\* C17: a selector that holds a track id resolved to a disc index that is a
\* stream of the list's type and is in the extracted file; its track id is
\* the container id of exactly that disc index; and without a derived
\* request the disc index is not flagged derived.
C17_TypeSafety ==
    \A i \in DOMAIN config_streams :
       LET c == config_streams[i] IN
       c.track # {} =>
          /\ disc[i] # {}
          /\ \A d \in disc[i] :
                /\ d \in TitleStreams
                /\ d \in KeptIdx("A")
                /\ c.track = {ContainerId("A", d)}
                /\ ~c.derived => d \notin TitleDerived

\* An audio list of a title with streams of another type below the audio
\* stream: ordinal 0 resolved to the audio stream, disc index 2.
C17_Witness ==
    /\ stream_type = "audio" /\ fatal = ""
    /\ TitleStreams = {2} /\ TitleDerived = {1}
    /\ Len(config_streams) = 1 /\ ~config_streams[1].derived
    /\ disc[1] = {2} /\ config_streams[1].track = {ContainerId("A", 2)}

\* ---------------------------------------------------- the ordinal's range
\* C18 as stated: a selector holds a track id only if 0 <= ordinal <
\* len(actual), and a selector with a negative ordinal that the call
\* reached ends the run.
C18_AsStated ==
    Called("A") =>
      \A i \in DOMAIN config_streams :
         LET c == config_streams[i] IN
         /\ c.track # {} => 0 <= c.index /\ c.index < NumActual
         /\ (c.index < 0 /\ Reached(i)) => fatal # "" /\ fatal_at = i

\* C18, what the code does with a negative ordinal: below -len(actual) the
\* run ends (IndexError); from -len(actual) to -1 Step A takes the actual
\* stream counted from the end, actual[len(actual) + ordinal].
C18_NegativeOrdinal ==
    Called("A") =>
      \A i \in DOMAIN config_streams :
         LET c == config_streams[i] IN
         (c.index < 0 /\ Reached(i)) =>
            IF 0 - c.index > NumActual THEN EndsAt(i, "IndexError")
            ELSE LET a == ActualAt(NumActual + c.index)
                     d == IF c.derived THEN a + 1 ELSE a
                 IN \/ disc[i] = {d} /\ c.track = {ContainerId("A", d)}
                    \/ EndsAt(i, "derived") /\ c.derived
                    \/ EndsAt(i, "absent") /\ d \notin KeptIdx("A")

\* Streams {0,1} of the type, none derived, both in the file: the selector
\* with ordinal -1 holds the track id of disc index 1.
C18_Witness ==
    /\ fatal = "" /\ runs["A"] = "once"
    /\ TitleStreams = {0, 1} /\ TitleDerived = {} /\ KeptIdx("A") = StreamIdx
    /\ Len(config_streams) = 1 /\ config_streams[1].index = 0 - 1
    /\ disc[1] = {1} /\ config_streams[1].track = {1}

\* ------------------------------------------------------- the run's history
\* the source titles the selectors of a config name
SourcesNamed(config) == {source_key(track) : track \in Range(AllTracks(config))}
\* every selector of the config holds a track id
AllHaveTrack(config) == \A track \in Range(AllTracks(config)) : track.track # {}
\* the engine has returned for every source title of the config
AllNormalized(config) == \A s \in SourcesNamed(config) : <<config.id, s>> \in resolved
\* the loop of process_config is over and the remux is what comes next
RemuxNext == pc.at = "title" /\ pc.rest = <<>>
\* the run was ended by the engine, for one of the reasons of lines 140-157
ResolutionErrors == {"ordinal", "derived", "absent"}
StepAErrors == {"ordinal", "derived"}

\* C11: within process_config the engine runs for a source title only after
\* that title was extracted, the remux starts only after the engine has
\* returned for every source title the config names, and at the remux every
\* selector of the config holds a track id.
C11_Ordering ==
    /\ resolved \subseteq extracted
    /\ (pc.at = "title" /\ pc.rest # <<>> /\ TitleSteps[pc.step] = "normalize")
          => <<pc.config.id, Head(pc.rest)>> \in extracted
    /\ RemuxNext => AllNormalized(pc.config) /\ AllHaveTrack(pc.config)
    /\ \A k \in DOMAIN outputs : AllNormalized(outputs[k]) /\ AllHaveTrack(outputs[k])

\* A config whose selectors name two source titles has been remuxed.
C11_Witness ==
    \E k \in DOMAIN outputs :
       /\ SourcesNamed(outputs[k]) = RunSources
       /\ \A s \in RunSources : <<outputs[k].id, s>> \in extracted \cap resolved

\* C12: once a resolution step has failed (ordinal out of range, derived
\* sibling missing, disc index absent from the container) the run is over:
\* from then on process_config is called for no config, and nothing is
\* extracted, resolved or remuxed, for the failing config or any other.
C12_Abort ==
    [][ended.why \in ResolutionErrors =>
          /\ pc.at = "ended" /\ pc' = pc
          /\ started' = started /\ extracted' = extracted
          /\ resolved' = resolved /\ outputs' = outputs
          /\ export_titles' = export_titles]_vars

\* The run was ended by a derived request without a sibling while another
\* config, all of whose images are found, was still to be exported.
C12_Witness ==
    /\ ended.why = "derived"
    /\ pc.at = "ended"
    /\ \E i \in DOMAIN export_titles :
          /\ export_titles[i].id # ended.id
          /\ Ready(export_titles[i], found_images)
          /\ export_titles[i].id \notin Range(started)

C12_WitnessOrdinal == ended.why = "ordinal" /\ Len(export_titles) = 2 /\ walk # <<>>
C12_WitnessAbsent == ended.why = "absent" /\ Len(export_titles) = 2 /\ walk # <<>>

\* C13 as stated: when a resolution error has ended the run, the run has
\* written no remuxed output file.
C13_AsStated == ended.why \in ResolutionErrors => outputs = <<>>

\* C13, as the script behaves: when a resolution error has ended the run,
\* no output file of the failing config has been written and the config is
\* still in the list; the outputs the run has written are those of configs
\* that were processed to their end before, each written once.
C13_NoOutputOfFailing ==
    ended.why \in ResolutionErrors =>
       /\ \A k \in DOMAIN outputs :
             /\ outputs[k].id # ended.id
             /\ outputs[k].id \in Range(started)
             /\ AllNormalized(outputs[k])
             /\ \A j \in DOMAIN outputs : outputs[j].id = outputs[k].id => j = k
       /\ \E i \in DOMAIN export_titles : export_titles[i].id = ended.id

\* The second config failed in the engine after its title was extracted,
\* when the first config's output had been written.
C13_Witness ==
    /\ ended.why \in ResolutionErrors
    /\ ended.id = 2
    /\ <<2, ended.source>> \in extracted
    /\ Len(outputs) = 1 /\ outputs[1].id = 1

\* C15 as stated: an ordinal out of range or a missing derived sibling is
\* reported without the title having been extracted.
C15_AsStated ==
    ended.why \in StepAErrors => <<ended.id, ended.source>> \notin extracted

\* C15, as the script behaves: Step A runs inside the engine, which is
\* called with the extracted file; an ordinal out of range or a missing
\* derived sibling is reported only after the title has been extracted, and
\* while the engine is at work for a title that title has been extracted.
C15_StepAAfterExtraction ==
    /\ ended.why \in StepAErrors => <<ended.id, ended.source>> \in extracted
    /\ (pc.at = "title" /\ pc.rest # <<>> /\ <<pc.config.id, Head(pc.rest)>> \notin extracted)
          => TitleSteps[pc.step] = "extract"

\* The one selector of the first config has its ordinal out of range: the
\* title was extracted, and then the error ended the run.
C15_Witness ==
    /\ ended = [why |-> "ordinal", id |-> 1, source |-> <<"X", "t">>]
    /\ extracted = {<<1, <<"X", "t">>>>}
    /\ resolved = {}

\* the number of times process_config was called for the config, and the
\* number of output files written for it
TimesStarted(id) == Cardinality({k \in DOMAIN started : started[k] = id})
TimesRemuxed(id) == Cardinality({k \in DOMAIN outputs : outputs[k].id = id})
\* the walk has met every entry and the run was not terminated
WalkOver == pc.at = "walk" /\ walk = <<>> /\ ended.why = ""
\* every key of found_images is the name or the hash of a directory that
\* matched a required image and was scanned
FoundWasScanned ==
    \A key \in DOMAIN found_images :
       \E entry \in Entries :
          /\ entry.name = found_images[key]
          /\ key \in {entry.name, entry.hash}
          /\ Matches(entry, required_images)

\* C19: a config is processed only when every image it requires has been
\* found and scanned; process_config is called at most once for a config
\* and at most one output is written for it, in whatever order the
\* directories are met and however often an image is met; and when the walk
\* is over, every config all of whose images were found has been processed
\* exactly once and has left the list, and the configs left in the list are
\* those with an image that was not found, which were never taken up.
C19_DriverLoop ==
    /\ FoundWasScanned
    /\ pc.at = "title" => ConfigSources(pc.config) \subseteq DOMAIN found_images
    /\ \A p \in extracted : ImageOf(p[2]) \in DOMAIN found_images
    /\ \A k \in DOMAIN outputs : ConfigSources(outputs[k]) \subseteq DOMAIN found_images
    /\ \A id \in 1 .. 2 : TimesStarted(id) <= 1 /\ TimesRemuxed(id) <= TimesStarted(id)
    /\ WalkOver =>
          /\ \A i \in DOMAIN export_titles :
                /\ ~(ConfigSources(export_titles[i]) \subseteq DOMAIN found_images)
                /\ TimesStarted(export_titles[i].id) = 0
          /\ \A k \in DOMAIN outputs :
                TimesStarted(outputs[k].id) = 1 /\ TimesRemuxed(outputs[k].id) = 1
          /\ {export_titles[i].id : i \in DOMAIN export_titles}
                \cup {outputs[k].id : k \in DOMAIN outputs}
                = 1 .. (Len(export_titles) + Len(outputs))

\* The walk met X, then Y twice, once under its name and once as the
\* directory Z with Y's unit key: the second config, which needs X only, was
\* exported first, the first, which needs both, once Y was found, and the
\* third matching directory found nothing left to export.
C19_Witness ==
    /\ WalkOver
    /\ export_titles = <<>>
    /\ started = <<2, 1>>
    /\ Len(outputs) = 2 /\ outputs[1].id = 2 /\ outputs[2].id = 1
    /\ ConfigSources(outputs[2]) = {"X", "Y"}
    /\ DOMAIN found_images = {"X", "Y", "Z"}


\* The script is one sequential process: whenever a step is possible, it
\* takes one.
SpecRunLive == SpecRun /\ WF_vars(NextRun)

\* the run comes to its end: the walk is over, or the run was terminated
RunEnds == <>(pc.at = "ended" \/ (pc.at = "walk" /\ walk = <<>>))

====
